---- MODULE Spec2Model ----
(***************************************************************************)
(* Model of intGEL.StateMachineFactory (src/js/internalgel.js, lines       *)
(* 10-83): the transition table kept in the closure variable               *)
(* `transitions`, the registration operations setTransition and            *)
(* setTransitions, build, and the dispatch closure made by newTransition.  *)
(*                                                                         *)
(* JavaScript objects are modelled by what a property read or write does:  *)
(* `transitions` and every row `transitions[name]` are Arrays, so a read   *)
(* of a key that is no own property falls through to Array.prototype; the  *)
(* runtime object is a plain object whose properties are all writable.     *)
(* A dispatch is executed statement by statement on an explicit call       *)
(* stack, because an action may call back into the runtime before the      *)
(* outer dispatch has returned.                                            *)
(*                                                                         *)
(* The Search widget (lines 91-247) is a client of the factory: its        *)
(* constructor registers ten transitions, builds one runtime in 'empty'    *)
(* and runs updateQuery; SpecSearch is the specification of that client.   *)
(***************************************************************************)
EXTENDS Integers, Sequences, FiniteSets, TLC

\* ------------------------------------------------------------- bounds
\* Number of registration calls (setTransition / setTransitions) in a run.
MaxRegs == 2
\* Depth of the JavaScript call stack, counted in dispatch frames; a call
\* beyond it raises RangeError ("Maximum call stack size exceeded").
MaxDepth == 3

\* ------------------------------------------------------------- values
\* Transition names used by the clients of the model.  "sort" stands for
\* the keys that Array.prototype defines (sort, push, find, filter, ...);
\* "currentState" is the name of the runtime's own field.
Names == {"go", "hop", "sort", "currentState"}
\* States used by the clients of the model; "sort" again is a key that
\* Array.prototype defines.
States == {"A", "B", "sort"}
\* Keys that every Array inherits from Array.prototype.
ProtoKeys == {"sort"}
\* Transition names and states of the Search widget's machine (lines
\* 183-205), spelled as the code spells them.
SearchNames == {"focus", "unfocus", "search", "change", "clear"}
SearchStates ==
    {"empty", "preSearchWithoutContent", "preSearchWithContent",
     "postSearchWithoutContext", "postSearchWithContext"}
\* The property keys that rows and cells are kept under in the model.
NameKeys == Names \cup SearchNames
StateKeys == States \cup SearchStates
\* The runtimes a client may build from the one factory.
Machines == {"r1", "r2"}
\* Argument lists a client passes to a transition callable.
ArgLists == {<< >>, <<"foo", "bar">>}
\* The argument list a reentrant action passes on.
InnerArgs == <<"in">>

\* JavaScript values that a property of the runtime object can hold.
Str(s) == [kind |-> "str", v |-> s]
Undefined == [kind |-> "undefined", v |-> ""]
Fn(n) == [kind |-> "fn", v |-> n]
Absent == [kind |-> "absent", v |-> ""]

\* The callbacks the clients register.  "a1" only has its own side effect
\* (Scenario A's counter); "a2" invokes go(...InnerArgs) on the runtime
\* whose dispatch invoked it; "undefined" is no function at all.
Actions == {"a1", "a2"}
Callbacks == Actions \cup {"undefined"}
\* The functions the Search widget registers: the function expressions of
\* lines 183, 186, 193 and 197, and hideContext, showContext,
\* showSearchIcon and noOp.  None of them calls the runtime.
SearchActions ==
    {"addFocused", "removeFocused", "hideContext", "showContext",
     "focusAndShowSearch", "showSearch", "showSearchIcon", "noOp"}
Callable(a) == a \in Actions \cup SearchActions
Reenters(a) == IF a = "a2" THEN "go" ELSE ""

\* A cell of a row: the object {endState, action} or no own property.
NoCell == [set |-> FALSE, endState |-> "", action |-> ""]
Entry(t, a) == [set |-> TRUE, endState |-> t, action |-> a]
EmptyRow == [s \in StateKeys |-> NoCell]

VARIABLES
    transitions,    \* the factory's table: own rows and their cells
    stateMachine,   \* the runtime objects, by property
    stack,          \* frames of the dispatches in progress
    log,            \* action invocations of the dispatch in progress
    regs,           \* number of registration calls made
    registered,     \* history: what the registration calls were given
    widget          \* the Search widget, when one is being used

vars == <<transitions, stateMachine, stack, log, regs, registered, widget>>

\* ------------------------------------------------------------- the table
\* `transitions` starts as the empty Array (line 11): no own row.  `own`
\* tells which names are own properties of `transitions`; `cells` holds the
\* own cells of the object that `transitions[name]` evaluates to.
NoTransitions == [own |-> [n \in NameKeys |-> FALSE], cells |-> [n \in NameKeys |-> EmptyRow]]

\* The test `!transitions[name]` of line 26, negated: an own row is an
\* Array and truthy; a key of Array.prototype reads as the inherited
\* function, truthy as well; any other key reads as undefined.
RowTruthy(tr, name) == tr.own[name] \/ name \in ProtoKeys

\* Mutant of StatesLoop: a cell that is already set is kept (first write
\* wins), as if line 30 were guarded like line 26.
RECURSIVE StatesLoopKeepFirst(_, _, _, _, _, _)
StatesLoopKeepFirst(tr, name, initialStates, i, endState, callback) ==
    IF i > Len(initialStates)
    THEN tr
    ELSE StatesLoopKeepFirst(
             IF tr.cells[name][initialStates[i]].set
             THEN tr
             ELSE [tr EXCEPT !.cells[name][initialStates[i]] = Entry(endState, callback)],
             name, initialStates, i + 1, endState, callback)

\* Lines 29-34: the loop over initialStates, from index i on.
RECURSIVE StatesLoop(_, _, _, _, _, _)
StatesLoop(tr, name, initialStates, i, endState, callback) ==
    IF i > Len(initialStates)
    THEN tr
    ELSE StatesLoop([tr EXCEPT !.cells[name][initialStates[i]] = Entry(endState, callback)],
                    name, initialStates, i + 1, endState, callback)

\* Lines 24-35: the loop over names, from index t on.
RECURSIVE NamesLoop(_, _, _, _, _, _)
NamesLoop(tr, names, t, initialStates, endState, callback) ==
    IF t > Len(names)
    THEN tr
    ELSE LET name == names[t]
             withRow == IF ~RowTruthy(tr, name)
                        THEN [tr EXCEPT !.own[name] = TRUE, !.cells[name] = EmptyRow]
                        ELSE tr
         IN  NamesLoop(StatesLoop(withRow, name, initialStates, 1, endState, callback),
                       names, t + 1, initialStates, endState, callback)

addPendingTransitions(tr, names, initialStates, endState, callback) ==
    NamesLoop(tr, names, 1, initialStates, endState, callback)

\* The value of `transitions[name] && transitions[name][key]` (line 15) and
\* of `transition.endState`, `transition.action` (lines 17-18), for the key
\* that the value v of currentState converts to.  An own cell wins; on an
\* own row a key of Array.prototype reads as the inherited function, which
\* is truthy and has neither endState nor action.
NoHit == [found |-> FALSE, endState |-> Undefined, action |-> "undefined"]
Inherited == [found |-> TRUE, endState |-> Undefined, action |-> "undefined"]
lookup(tr, name, v) ==
    IF ~RowTruthy(tr, name) THEN NoHit
    ELSE IF v.kind = "str" /\ v.v \in StateKeys /\ tr.cells[name][v.v].set
         THEN [found |-> TRUE,
               endState |-> Str(tr.cells[name][v.v].endState),
               action |-> tr.cells[name][v.v].action]
    ELSE IF v.kind = "str" /\ v.v \in ProtoKeys /\ tr.own[name]
         THEN Inherited
    ELSE NoHit

\* ------------------------------------------------------------- runtimes
PropKeys == NameKeys \cup {"currentState"}
Unbuilt == [k \in PropKeys |-> Absent]
Built(m) == stateMachine[m]["currentState"] # Absent
currentState(m) == stateMachine[m]["currentState"]

\* newTransition (lines 13-21) returns a closure over the runtime and name.
newTransition(name) == Fn(name)

\* build (lines 73-81): the object literal, then one property per
\* enumerable key of `transitions`, assigned in the same object.
build(tr, initialState) ==
    LET literal == [k \in PropKeys |-> IF k = "currentState" THEN Str(initialState) ELSE Absent]
    IN  [k \in PropKeys |-> IF k \in NameKeys /\ tr.own[k] THEN newTransition(k) ELSE literal[k]]

\* The transition callables a runtime object exposes.
CallablesOf(obj) == {k \in PropKeys : obj[k].kind = "fn"}
Callables(m) == CallablesOf(stateMachine[m])

\* ------------------------------------------------------------- dispatch
\* Mutant of setCurrentState: the write is made after the action instead
\* of before it, so it has not happened when the action starts.
setCurrentStateLate(m, v) == stateMachine

\* Mutant of setCurrentState: currentState is kept once per factory, so the
\* write reaches every runtime built from it.
setCurrentStateShared(m, v) ==
    [x \in Machines |->
        IF stateMachine[x]["currentState"] # Absent
        THEN [stateMachine[x] EXCEPT !["currentState"] = v]
        ELSE stateMachine[x]]

\* Line 17: stateMachine.currentState = transition.endState, a write to the
\* property of the one runtime the closure was made for.
setCurrentState(m, v) == [stateMachine EXCEPT ![m]["currentState"] = v]

\* Mutant of applyArguments: the action is called with the first argument
\* only, transition.action(arguments[0]).
applyFirstArgument(args) == IF Len(args) = 0 THEN << >> ELSE <<args[1]>>

\* Line 18: apply(null, arguments) hands the action the argument list of
\* the call, element by element.
applyArguments(args) == [i \in 1..Len(args) |-> args[i]]

Frame(m, name, args, pre) ==
    [m |-> m, name |-> name, args |-> args, pc |-> "lookup", pre |-> pre, tr |-> NoHit]
Top == stack[Len(stack)]
Idle == stack = << >>
SetTop(f) == [stack EXCEPT ![Len(stack)] = f]

\* History of the registration calls: the names passed so far and, for
\* every (name, state) pair a call has covered, the first and the last
\* (endState, action) registered for it.
NoHistory ==
    [names |-> {},
     first |-> [n \in NameKeys |-> [s \in StateKeys |-> NoCell]],
     last |-> [n \in NameKeys |-> [s \in StateKeys |-> NoCell]]]
Range(seq) == {seq[i] : i \in 1..Len(seq)}
Record(h, names, initialStates, endState, callback) ==
    LET covered(n, s) == n \in Range(names) /\ s \in Range(initialStates)
    IN  [names |-> h.names \cup Range(names),
         first |-> [n \in NameKeys |-> [s \in StateKeys |->
                      IF covered(n, s) /\ ~h.first[n][s].set
                      THEN Entry(endState, callback) ELSE h.first[n][s]]],
         last |-> [n \in NameKeys |-> [s \in StateKeys |->
                      IF covered(n, s) THEN Entry(endState, callback) ELSE h.last[n][s]]]]

\* No Search widget has been constructed.
NoWidget == [pc |-> "none", query |-> Undefined, focused |-> FALSE, calls |-> << >>]

Init ==
    /\ transitions = NoTransitions
    /\ registered = NoHistory
    /\ stateMachine = [m \in Machines |-> Unbuilt]
    /\ stack = << >>
    /\ log = << >>
    /\ regs = 0
    /\ widget = NoWidget

\* The registration calls the clients make.
\* setTransition is called for every name but "hop", which the clients
\* register through setTransitions only.
Moves == {<<"A", "B">>, <<"B", "A">>}
SingleCalls == (Names \ {"hop"}) \X Moves \X Callbacks
BulkCalls ==
    { <<<<"go", "hop">>, <<"A", "B">>, "A", "a1">>,
      <<<< >>, <<"A">>, "B", "a1">>,
      <<<<"hop">>, << >>, "B", "a1">> }

\* setTransition (lines 49-51).
setTransition(name, initialState, endState, callback) ==
    /\ Idle
    /\ regs < MaxRegs
    /\ transitions' = addPendingTransitions(transitions, <<name>>, <<initialState>>, endState, callback)
    /\ registered' = Record(registered, <<name>>, <<initialState>>, endState, callback)
    /\ regs' = regs + 1
    /\ UNCHANGED <<stateMachine, stack, log, widget>>

\* setTransitions (line 63).
setTransitions(names, initialStates, endState, callback) ==
    /\ Idle
    /\ regs < MaxRegs
    /\ transitions' = addPendingTransitions(transitions, names, initialStates, endState, callback)
    /\ registered' = Record(registered, names, initialStates, endState, callback)
    /\ regs' = regs + 1
    /\ UNCHANGED <<stateMachine, stack, log, widget>>

\* build (lines 73-81), called for the runtime m; r2 is built after r1.
Build(m, initialState) ==
    /\ Idle
    /\ ~Built(m)
    /\ m = "r2" => Built("r1")
    /\ stateMachine' = [stateMachine EXCEPT ![m] = build(transitions, initialState)]
    /\ UNCHANGED <<transitions, stack, log, regs, registered, widget>>

\* A client invokes the callable stored under the property n of runtime m.
Call(m, n, args) ==
    /\ Idle
    /\ stateMachine[m][n].kind = "fn"
    /\ stack' = <<Frame(m, stateMachine[m][n].v, args, currentState(m))>>
    /\ log' = << >>
    /\ UNCHANGED <<transitions, stateMachine, regs, registered, widget>>

\* Lines 15-17: the test, and on a hit the write of currentState.
Lookup ==
    /\ ~Idle
    /\ Top.pc = "lookup"
    /\ LET f == Top
           r == lookup(transitions, f.name, currentState(f.m))
       IN  IF r.found
           THEN /\ stateMachine' = setCurrentState(f.m, r.endState)
                /\ stack' = SetTop([f EXCEPT !.pc = "apply", !.tr = r])
           ELSE /\ stack' = SetTop([f EXCEPT !.pc = "ret"])
                /\ UNCHANGED stateMachine
    /\ UNCHANGED <<transitions, log, regs, registered, widget>>

\* Line 18: transition.action.apply(null, arguments).  Reading .apply of
\* undefined raises TypeError; a callable action is entered with the
\* arguments of the call.  A reentrant action calls the runtime's callable,
\* which raises TypeError when the property holds no function and
\* RangeError when the stack is exhausted.
Apply ==
    /\ ~Idle
    /\ Top.pc = "apply"
    /\ LET f == Top
           a == f.tr.action
           callee == IF Reenters(a) = "" THEN Absent ELSE stateMachine[f.m][Reenters(a)]
       IN  IF ~Callable(a)
           THEN /\ stack' = SetTop([f EXCEPT !.pc = "throw"])
                /\ UNCHANGED log
           ELSE /\ log' = Append(log, [action |-> a, args |-> applyArguments(f.args),
                                       seen |-> currentState(f.m), depth |-> Len(stack)])
                /\ IF Reenters(a) = ""
                   THEN stack' = SetTop([f EXCEPT !.pc = "ret"])
                   ELSE IF callee.kind # "fn" \/ Len(stack) >= MaxDepth
                   THEN stack' = SetTop([f EXCEPT !.pc = "throw"])
                   ELSE stack' = Append(SetTop([f EXCEPT !.pc = "wait"]),
                                        Frame(f.m, callee.v, InnerArgs, currentState(f.m)))
    /\ UNCHANGED <<transitions, stateMachine, regs, registered, widget>>

\* Mutant of Return: line 15 is a `while` instead of an `if`, so after the
\* action has returned a dispatch that had hit an entry tests again.
ReturnWhile ==
    /\ ~Idle
    /\ Top.pc = "ret"
    /\ LET rest == SubSeq(stack, 1, Len(stack) - 1)
       IN  IF Top.tr.found
           THEN stack' = SetTop([Top EXCEPT !.pc = "lookup", !.tr = NoHit]) /\ UNCHANGED log
           ELSE IF rest = << >>
           THEN stack' = << >> /\ log' = << >>
           ELSE /\ stack' = [rest EXCEPT ![Len(rest)].pc = "ret"]
                /\ UNCHANGED log
    /\ UNCHANGED <<transitions, stateMachine, regs, registered, widget>>

\* Mutant of Return: the closure writes its own destination again after
\* its action has returned, which undoes what the action's dispatch did.
ReturnRestore ==
    /\ ~Idle
    /\ Top.pc = "ret"
    /\ LET rest == SubSeq(stack, 1, Len(stack) - 1)
       IN  IF rest = << >>
           THEN stack' = << >> /\ log' = << >> /\ UNCHANGED stateMachine
           ELSE /\ stack' = [rest EXCEPT ![Len(rest)].pc = "ret"]
                /\ stateMachine' = setCurrentState(rest[Len(rest)].m, rest[Len(rest)].tr.endState)
                /\ UNCHANGED log
    /\ UNCHANGED <<transitions, regs, registered, widget>>

\* Lines 19-20: the closure returns; a caller that was waiting in its
\* action has nothing left to do but return as well.
Return ==
    /\ ~Idle
    /\ Top.pc = "ret"
    /\ LET rest == SubSeq(stack, 1, Len(stack) - 1)
       IN  IF rest = << >>
           THEN stack' = << >> /\ log' = << >>
           ELSE /\ stack' = [rest EXCEPT ![Len(rest)].pc = "ret"]
                /\ UNCHANGED log
    /\ UNCHANGED <<transitions, stateMachine, regs, registered, widget>>

\* Mutant of Unwind: the call is wrapped in a handler that puts back the
\* state the client's call was entered in before the exception goes on.
UnwindRollback ==
    /\ ~Idle
    /\ Top.pc = "throw"
    /\ stack' = << >>
    /\ log' = << >>
    /\ stateMachine' = [stateMachine EXCEPT ![stack[1].m]["currentState"] = stack[1].pre]
    /\ UNCHANGED <<transitions, regs, registered, widget>>

\* An exception raised in a dispatch is caught nowhere in lines 13-21: it
\* leaves every frame and reaches the client.
Unwind ==
    /\ ~Idle
    /\ Top.pc = "throw"
    /\ stack' = << >>
    /\ log' = << >>
    /\ UNCHANGED <<transitions, stateMachine, regs, registered, widget>>

Next ==
    \/ \E c \in SingleCalls : setTransition(c[1], c[2][1], c[2][2], c[3])
    \/ \E c \in BulkCalls : setTransitions(c[1], c[2], c[3], c[4])
    \/ \E m \in Machines, s \in States : Build(m, s)
    \/ \E m \in Machines, n \in PropKeys, args \in ArgLists : Call(m, n, args)
    \/ Lookup
    \/ Apply
    \/ Return
    \/ Unwind

Spec == Init /\ [][Next]_vars

\* The steps of a client that builds one runtime from the factory; a
\* dispatch reads and writes the runtime it was made for and no other.
NextFair ==
    \/ \E c \in SingleCalls : setTransition(c[1], c[2][1], c[2][2], c[3])
    \/ \E c \in BulkCalls : setTransitions(c[1], c[2], c[3], c[4])
    \/ \E s \in States : Build("r1", s)
    \/ \E n \in PropKeys, args \in ArgLists : Call("r1", n, args)
    \/ Lookup
    \/ Apply
    \/ Return
    \/ Unwind

\* JavaScript runs a call to completion: once a transition callable has
\* been called, the statements of lines 15-20 and of the actions follow one
\* another without waiting for anything.
SpecFair ==
    /\ Init
    /\ [][NextFair]_vars
    /\ WF_vars(Lookup)
    /\ WF_vars(Apply)
    /\ WF_vars(Return)
    /\ WF_vars(Unwind)

\* The runtime is the plain object of lines 74-76: currentState is an
\* ordinary writable property, so a client that holds the object can assign
\* to it.
ClientWrite(m, v) ==
    /\ Idle
    /\ Built(m)
    /\ stateMachine' = [stateMachine EXCEPT ![m]["currentState"] = Str(v)]
    /\ UNCHANGED <<transitions, stack, log, regs, registered, widget>>

NextClient ==
    \/ Next
    \/ \E m \in Machines, v \in States : ClientWrite(m, v)

\* The factory used by clients that also use the runtime as the object it
\* is.
SpecClient == Init /\ [][NextClient]_vars

TypeOK ==
    /\ regs \in 0..MaxRegs
    /\ Len(stack) <= MaxDepth
    /\ Len(log) <= MaxDepth

\* ------------------------------------------------------------- Search
\* Number of invocations made on the widget's runtime after construction.
MaxCalls == 4
\* Non-empty query strings.
Queries == {"foo", "bar"}
\* What $input.val() can be when the constructor reads it (line 247):
\* undefined when no element matches, the empty string, or a query.
InitialValues == {Undefined, Str(""), Str("foo")}

\* Mutant of SearchDefinition: line 190 spells its destination
\* 'postSearchWithoutContent'.
SearchDefinitionMisspelt ==
    << <<<<"focus">>, <<"empty">>, "preSearchWithoutContent", "addFocused">>,
       <<<<"unfocus">>, <<"preSearchWithoutContent">>, "empty", "removeFocused">>,
       <<<<"focus">>, <<"postSearchWithContext">>, "postSearchWithoutContent", "hideContext">>,
       <<<<"unfocus">>, <<"postSearchWithoutContext">>, "postSearchWithContext", "showContext">>,
       <<<<"search">>, <<"empty">>, "postSearchWithContext", "focusAndShowSearch">>,
       <<<<"search">>, <<"preSearchWithContent">>, "postSearchWithContext", "showSearch">>,
       <<<<"clear">>, <<"postSearchWithoutContext", "postSearchWithContext">>,
         "preSearchWithoutContent", "showSearchIcon">>,
       <<<<"change">>, <<"postSearchWithoutContext">>, "preSearchWithContent", "showSearchIcon">>,
       <<<<"clear">>, <<"preSearchWithContent">>, "preSearchWithoutContent", "noOp">>,
       <<<<"change">>, <<"preSearchWithoutContent">>, "preSearchWithContent", "noOp">> >>

\* Mutant of SearchDefinition: line 201 lists 'postSearchWithoutContext'
\* only.
SearchDefinitionShortClear ==
    << <<<<"focus">>, <<"empty">>, "preSearchWithoutContent", "addFocused">>,
       <<<<"unfocus">>, <<"preSearchWithoutContent">>, "empty", "removeFocused">>,
       <<<<"focus">>, <<"postSearchWithContext">>, "postSearchWithoutContext", "hideContext">>,
       <<<<"unfocus">>, <<"postSearchWithoutContext">>, "postSearchWithContext", "showContext">>,
       <<<<"search">>, <<"empty">>, "postSearchWithContext", "focusAndShowSearch">>,
       <<<<"search">>, <<"preSearchWithContent">>, "postSearchWithContext", "showSearch">>,
       <<<<"clear">>, <<"postSearchWithoutContext">>, "preSearchWithoutContent", "showSearchIcon">>,
       <<<<"change">>, <<"postSearchWithoutContext">>, "preSearchWithContent", "showSearchIcon">>,
       <<<<"clear">>, <<"preSearchWithContent">>, "preSearchWithoutContent", "noOp">>,
       <<<<"change">>, <<"preSearchWithoutContent">>, "preSearchWithContent", "noOp">> >>

\* Mutant of SearchDefinition: line 204 registers clear from 'empty' too.
SearchDefinitionClearEmpty ==
    << <<<<"focus">>, <<"empty">>, "preSearchWithoutContent", "addFocused">>,
       <<<<"unfocus">>, <<"preSearchWithoutContent">>, "empty", "removeFocused">>,
       <<<<"focus">>, <<"postSearchWithContext">>, "postSearchWithoutContext", "hideContext">>,
       <<<<"unfocus">>, <<"postSearchWithoutContext">>, "postSearchWithContext", "showContext">>,
       <<<<"search">>, <<"empty">>, "postSearchWithContext", "focusAndShowSearch">>,
       <<<<"search">>, <<"preSearchWithContent">>, "postSearchWithContext", "showSearch">>,
       <<<<"clear">>, <<"postSearchWithoutContext", "postSearchWithContext">>,
         "preSearchWithoutContent", "showSearchIcon">>,
       <<<<"change">>, <<"postSearchWithoutContext">>, "preSearchWithContent", "showSearchIcon">>,
       <<<<"clear">>, <<"preSearchWithContent", "empty">>, "preSearchWithoutContent", "noOp">>,
       <<<<"change">>, <<"preSearchWithoutContent">>, "preSearchWithContent", "noOp">> >>

\* Mutant of SearchDefinition: line 186 is missing, so nothing leads back
\* to 'empty'.
SearchDefinitionNoWayBack ==
    << <<<<"focus">>, <<"empty">>, "preSearchWithoutContent", "addFocused">>,
       <<<<"focus">>, <<"postSearchWithContext">>, "postSearchWithoutContext", "hideContext">>,
       <<<<"unfocus">>, <<"postSearchWithoutContext">>, "postSearchWithContext", "showContext">>,
       <<<<"search">>, <<"empty">>, "postSearchWithContext", "focusAndShowSearch">>,
       <<<<"search">>, <<"preSearchWithContent">>, "postSearchWithContext", "showSearch">>,
       <<<<"clear">>, <<"postSearchWithoutContext", "postSearchWithContext">>,
         "preSearchWithoutContent", "showSearchIcon">>,
       <<<<"change">>, <<"postSearchWithoutContext">>, "preSearchWithContent", "showSearchIcon">>,
       <<<<"clear">>, <<"preSearchWithContent">>, "preSearchWithoutContent", "noOp">>,
       <<<<"change">>, <<"preSearchWithoutContent">>, "preSearchWithContent", "noOp">> >>

\* Lines 183-205: the registration calls of the widget, in order, each as
\* (names, initialStates, endState, callback); setTransition passes lists
\* of one.
SearchDefinition ==
    << <<<<"focus">>, <<"empty">>, "preSearchWithoutContent", "addFocused">>,
       <<<<"unfocus">>, <<"preSearchWithoutContent">>, "empty", "removeFocused">>,
       <<<<"focus">>, <<"postSearchWithContext">>, "postSearchWithoutContext", "hideContext">>,
       <<<<"unfocus">>, <<"postSearchWithoutContext">>, "postSearchWithContext", "showContext">>,
       <<<<"search">>, <<"empty">>, "postSearchWithContext", "focusAndShowSearch">>,
       <<<<"search">>, <<"preSearchWithContent">>, "postSearchWithContext", "showSearch">>,
       <<<<"clear">>, <<"postSearchWithoutContext", "postSearchWithContext">>,
         "preSearchWithoutContent", "showSearchIcon">>,
       <<<<"change">>, <<"postSearchWithoutContext">>, "preSearchWithContent", "showSearchIcon">>,
       <<<<"clear">>, <<"preSearchWithContent">>, "preSearchWithoutContent", "noOp">>,
       <<<<"change">>, <<"preSearchWithoutContent">>, "preSearchWithContent", "noOp">> >>

\* The table after the registration calls from index i on.
RECURSIVE Register(_, _, _)
Register(tr, calls, i) ==
    IF i > Len(calls)
    THEN tr
    ELSE Register(addPendingTransitions(tr, calls[i][1], calls[i][2], calls[i][3], calls[i][4]),
                  calls, i + 1)

\* The history after the registration calls from index i on.
RECURSIVE RecordAll(_, _, _)
RecordAll(h, calls, i) ==
    IF i > Len(calls)
    THEN h
    ELSE RecordAll(Record(h, calls[i][1], calls[i][2], calls[i][3], calls[i][4]), calls, i + 1)

\* The stack once the widget has called stateMachine.<n>(args): the widget
\* holds the one runtime r1.
invoke(n, args) == <<Frame("r1", stateMachine["r1"][n].v, args, currentState("r1"))>>

\* The invocations that handlers make on the runtime: focusin passes its
\* event to focus (line 209), focusout calls unfocus() (line 216), keyup
\* calls clear() or change() (lines 240-244), updateQuery calls
\* search(query) (line 174) and clearQuery calls clear() (line 160).
SearchCalls ==
    {<<"focus", <<"event">>>>, <<"unfocus", << >>>>, <<"clear", << >>>>, <<"change", << >>>>}
        \cup {<<"search", <<q>>>> : q \in Queries}

\* The constructor has been entered: the input holds its initial value
\* (lines 109-116) and may have the focus if it exists.
SearchInit ==
    /\ transitions = NoTransitions
    /\ registered = NoHistory
    /\ stateMachine = [m \in Machines |-> Unbuilt]
    /\ stack = << >>
    /\ log = << >>
    /\ regs = 0
    /\ widget \in {[pc |-> "define", query |-> q, focused |-> f, calls |-> << >>] :
                      q \in InitialValues, f \in BOOLEAN}
    /\ widget.focused => widget.query # Undefined

\* Lines 179-207: the factory is made, the ten registration calls are
\* made and the runtime is built in 'empty'.
Search ==
    /\ widget.pc = "define"
    /\ transitions' = Register(transitions, SearchDefinition, 1)
    /\ registered' = RecordAll(registered, SearchDefinition, 1)
    /\ regs' = regs + Len(SearchDefinition)
    /\ stateMachine' = [stateMachine EXCEPT !["r1"] = build(transitions', "empty")]
    /\ widget' = [widget EXCEPT !.pc = "updateQuery"]
    /\ UNCHANGED <<stack, log>>

\* Lines 157-161: clearQuery ends by calling stateMachine.clear().
clearQuery == invoke("clear", << >>)

\* Mutant of updateQuery: the test of line 170 is missing and every query
\* is searched for.
updateQueryNoTest ==
    /\ widget.pc = "updateQuery"
    /\ Idle
    /\ stack' = invoke("search", <<widget.query.v>>)
    /\ log' = << >>
    /\ widget' = [widget EXCEPT !.pc = "blur"]
    /\ UNCHANGED <<transitions, stateMachine, regs, registered>>

\* Lines 168-175, called from line 247: clearQuery for an undefined or
\* empty query, stateMachine.search(query) otherwise.
updateQuery ==
    /\ widget.pc = "updateQuery"
    /\ Idle
    /\ stack' = IF widget.query = Undefined \/ widget.query = Str("")
                THEN clearQuery
                ELSE invoke("search", <<widget.query.v>>)
    /\ log' = << >>
    /\ widget' = [widget EXCEPT !.pc = "blur"]
    /\ UNCHANGED <<transitions, stateMachine, regs, registered>>

\* Line 176: $input.blur().  An input that has the focus loses it and the
\* focusout handler (lines 210-217) calls stateMachine.unfocus(); on an
\* input without the focus nothing happens.  The constructor then returns.
blur ==
    /\ widget.pc = "blur"
    /\ Idle
    /\ IF widget.focused
       THEN stack' = invoke("unfocus", << >>) /\ log' = << >>
       ELSE UNCHANGED <<stack, log>>
    /\ widget' = [widget EXCEPT !.pc = "done", !.focused = FALSE]
    /\ UNCHANGED <<transitions, stateMachine, regs, registered>>

\* After construction a handler invokes a callable of the runtime.
Invoke(n, args) ==
    /\ widget.pc = "done"
    /\ Idle
    /\ Len(widget.calls) < MaxCalls
    /\ stack' = invoke(n, args)
    /\ log' = << >>
    /\ widget' = [widget EXCEPT !.calls = Append(@, <<n, args>>)]
    /\ UNCHANGED <<transitions, stateMachine, regs, registered>>

\* Unwind is no step of the widget: SearchNeverRaises shows that no
\* dispatch of its runtime raises.
SearchNext ==
    \/ Search
    \/ updateQuery
    \/ blur
    \/ \E c \in SearchCalls : Invoke(c[1], c[2])
    \/ Lookup
    \/ Apply
    \/ Return

SpecSearch == SearchInit /\ [][SearchNext]_vars

SearchNeverRaises == \A i \in 1..Len(stack) : stack[i].pc # "throw"

\* ------------------------------------------------------------- properties
\* The table has an entry for (n, v): an own cell of the row of n under
\* the state v.
HasEntry(n, v) ==
    /\ v.kind = "str"
    /\ v.v \in StateKeys
    /\ transitions.own[n]
    /\ transitions.cells[n][v.v].set
EntryOf(n, v) == transitions.cells[n][v.v]
\* The invocations a frame at depth i made itself.
InvokedAt(i) == {j \in 1..Len(log) : log[j].depth = i}

\* C1 (P1, no-op safety): a dispatch of n entered in state s, for which the
\* table has no entry (n, s), leaves currentState equal to s and invokes no
\* action.
C1_NoOpSafety ==
    \A i \in 1..Len(stack) :
        LET f == stack[i]
        IN  (f.pc # "lookup" /\ ~HasEntry(f.name, f.pre)) =>
                /\ currentState(f.m) = f.pre
                /\ InvokedAt(i) = {}
                /\ f.pc = "ret"

\* C2 as claimed (P2 for every action, reentrant ones included): when a
\* dispatch that hit (n, s) -> (t, a) returns, currentState is t and a has
\* been invoked exactly once, with exactly the arguments of the call.
C2_AsClaimed ==
    \A i \in 1..Len(stack) :
        LET f == stack[i]
        IN  (f.pc = "ret" /\ HasEntry(f.name, f.pre)) =>
                /\ currentState(f.m) = Str(EntryOf(f.name, f.pre).endState)
                /\ Cardinality({j \in 1..Len(log) :
                                   log[j].action = EntryOf(f.name, f.pre).action}) = 1
                /\ \A j \in 1..Len(log) :
                       log[j].action = EntryOf(f.name, f.pre).action => log[j].args = f.args

\* C2 as amended: a dispatch that hit (n, s) -> (t, a) and returns has
\* itself invoked a exactly once, with exactly the arguments of the call and
\* with currentState equal to t at that moment; when it returns,
\* currentState is the destination of the last transition taken during the
\* call, which is t when a took no transition.
C2_DeterministicTransition ==
    \A i \in 1..Len(stack) :
        LET f == stack[i]
            e == EntryOf(f.name, f.pre)
        IN  (f.pc = "ret" /\ HasEntry(f.name, f.pre)) =>
                /\ Cardinality(InvokedAt(i)) = 1
                /\ \A j \in InvokedAt(i) :
                       /\ log[j].action = e.action
                       /\ log[j].args = f.args
                       /\ log[j].seen = Str(e.endState)
                /\ currentState(f.m) = log[Len(log)].seen
                /\ (\A j \in 1..Len(log) : log[j].depth <= i) =>
                       currentState(f.m) = Str(e.endState)

\* C2 witness: a dispatch called with two arguments hit an entry, its
\* action took a further transition, and the dispatch is about to return.
C2_Witness ==
    /\ Len(stack) = 1
    /\ Top.pc = "ret"
    /\ Top.args = <<"foo", "bar">>
    /\ HasEntry(Top.name, Top.pre)
    /\ Len(log) = 2
    /\ log[1].args = <<"foo", "bar">>

\* C3 (P3, state before action): whenever an action runs or is about to
\* run, currentState has already been written with the destination t of the
\* entry that was hit, and a transition invoked from inside the action is
\* looked up against t, not against the state s the outer call started in.
C3_StateBeforeAction ==
    /\ \A i \in 1..Len(stack) :
           LET f == stack[i]
           IN  /\ (f.pc # "lookup" /\ HasEntry(f.name, f.pre)) =>
                      /\ f.tr.found
                      /\ f.tr.endState = Str(EntryOf(f.name, f.pre).endState)
               /\ f.pc = "apply" => currentState(f.m) = f.tr.endState
               /\ i > 1 => /\ stack[i - 1].pc = "wait"
                           /\ f.pre = stack[i - 1].tr.endState
    /\ \A j \in 1..Len(log) :
           log[j].depth <= Len(stack) => log[j].seen = stack[log[j].depth].tr.endState

\* C3 witness: a reentrant dispatch, made from inside an action, has hit an
\* entry of its own against a state different from the one the outer call
\* started in.
C3_Witness ==
    /\ Len(stack) = 2
    /\ stack[2].pc = "apply"
    /\ stack[2].tr.found
    /\ stack[2].pre # stack[1].pre
    /\ Len(log) = 1

\* C4 as claimed (freeze at build): a registration call made after build
\* changes, for no callable n of a built runtime and no state s, what a
\* dispatch of n from s does (hit or miss, destination, action).
C4_FreezeAtBuild ==
    [][\A m \in Machines : \A n \in Callables(m) : \A s \in States :
           lookup(transitions', n, Str(s)) = lookup(transitions, n, Str(s))]_vars

\* C5 (P5, last write wins): for every (n, s) that registration calls have
\* covered, the table holds the (t2, a2) of the last call that covered it
\* and nothing of the earlier ones; a dispatch of n from s moves to t2 and
\* invokes a2.  A pair no call has covered has no entry.
C5_LastWriteWins ==
    \A n \in Names, s \in States :
        LET e == registered.last[n][s]
            hit == [found |-> TRUE, endState |-> Str(e.endState), action |-> e.action]
        IN  /\ ~e.set => ~transitions.cells[n][s].set
            /\ e.set =>
                  /\ transitions.cells[n][s] = e
                  /\ lookup(transitions, n, Str(s)) = hit
                  /\ \A i \in 1..Len(stack) :
                         (stack[i].name = n /\ stack[i].pre = Str(s) /\ stack[i].pc # "lookup") =>
                             /\ stack[i].tr = hit
                             /\ \A j \in InvokedAt(i) : log[j].action = e.action

\* C5 witness: a pair was registered twice with different (endState,
\* action), and a dispatch of it has invoked the action registered last.
C5_Witness ==
    /\ Len(stack) = 1
    /\ Top.pc = "ret"
    /\ Top.pre.kind = "str"
    /\ Top.pre.v \in States
    /\ registered.first[Top.name][Top.pre.v].set
    /\ registered.first[Top.name][Top.pre.v].endState # registered.last[Top.name][Top.pre.v].endState
    /\ registered.first[Top.name][Top.pre.v].action # registered.last[Top.name][Top.pre.v].action
    /\ Len(log) = 1
    /\ log[1].action = registered.last[Top.name][Top.pre.v].action

\* The table after one setTransition call per pair, made in the order q.
RECURSIVE SinglesInOrder(_, _, _, _, _)
SinglesInOrder(tr, q, i, endState, callback) ==
    IF i > Len(q)
    THEN tr
    ELSE SinglesInOrder(addPendingTransitions(tr, <<q[i][1]>>, <<q[i][2]>>, endState, callback),
                        q, i + 1, endState, callback)
Pairs(names, initialStates) == Range(names) \X Range(initialStates)
Orders(S) == {q \in [1..Cardinality(S) -> S] : Range(q) = S}

\* C6 as claimed (P4, bulk equivalence): a setTransitions call leaves the
\* table, and so the runtimes built from it, as the individual
\* setTransition calls for the pairs of names x initialStates leave it,
\* whatever their order.
C6_BulkEquivalence ==
    [][\A c \in BulkCalls :
           setTransitions(c[1], c[2], c[3], c[4]) =>
               \A q \in Orders(Pairs(c[1], c[2])) :
                   /\ transitions' = SinglesInOrder(transitions, q, 1, c[3], c[4])
                   /\ \A s \in States :
                          CallablesOf(build(transitions', s))
                              = CallablesOf(build(SinglesInOrder(transitions, q, 1, c[3], c[4]), s))]_vars

\* C7 as claimed: build exposes exactly the names passed to the
\* registration calls so far, and the callables of a built runtime never
\* change afterwards.
C7_CallablesAreNames ==
    [][\A m \in Machines :
           /\ (~Built(m) /\ stateMachine'[m]["currentState"] # Absent) =>
                  CallablesOf(stateMachine'[m]) = registered.names
           /\ Built(m) => CallablesOf(stateMachine'[m]) = Callables(m)]_vars

\* C8 (independence): no step of a dispatch on one runtime changes the
\* table or any property of another runtime, so the other runtime behaves
\* afterwards as it would have without the dispatch.
C8_Independence ==
    [][\A m \in Machines :
           ((~Idle /\ stack[1].m # m) \/ (stack' # << >> /\ stack'[1].m # m)) =>
               /\ stateMachine'[m] = stateMachine[m]
               /\ transitions' = transitions]_vars

\* C8 witness: two runtimes were in the same state; a dispatch on r1 has
\* hit an entry and moved r1, and r2 is where it was.
C8_Witness ==
    /\ Built("r2")
    /\ ~Idle
    /\ Top.m = "r1"
    /\ Top.pc = "apply"
    /\ Top.tr.found
    /\ currentState("r2") = Top.pre
    /\ currentState("r1") # Top.pre

\* C9 as claimed (single writer): the currentState of a built runtime
\* changes only in the step of a dispatch on that runtime that hits an
\* entry of the table.
C9_SingleWriter ==
    [][\A m \in Machines :
           (Built(m) /\ stateMachine'[m]["currentState"] # currentState(m)) =>
               /\ ~Idle
               /\ Top.m = m
               /\ Top.pc = "lookup"
               /\ HasEntry(Top.name, currentState(m))]_vars

\* C10 as claimed: build(initialState) returns a runtime whose currentState
\* reads initialState, for every set of registered names, and it keeps
\* reading so until a dispatch hits an entry.
C10_InitialState ==
    [][\A m \in Machines :
           /\ \A s \in States : Build(m, s) => stateMachine'[m]["currentState"] = Str(s)
           /\ (Built(m) /\ stateMachine'[m]["currentState"] # currentState(m)) =>
                  (~Idle /\ Top.m = m /\ Top.pc = "lookup" /\ HasEntry(Top.name, currentState(m)))]_vars

\* C11 as claimed: a setTransitions call with an empty names list or an
\* empty initialStates list has no effect: the table, and the callables of
\* a runtime built afterwards, are what they were before the call.
C11_EmptyListsNoEffect ==
    [][\A c \in BulkCalls :
           ((c[1] = << >> \/ c[2] = << >>) /\ setTransitions(c[1], c[2], c[3], c[4])) =>
               /\ transitions' = transitions
               /\ \A s \in States :
                      CallablesOf(build(transitions', s)) = CallablesOf(build(transitions, s))]_vars

\* C12 as claimed (lazy failure): an exception that a dispatch raises before
\* it has entered any action comes from a hit of a cell that was registered
\* with an action that is not callable; a dispatch that misses raises
\* nothing.
C12_LazyFailure ==
    \A i \in 1..Len(stack) :
        LET f == stack[i]
        IN  (f.pc = "throw" /\ InvokedAt(i) = {}) =>
                /\ HasEntry(f.name, f.pre)
                /\ ~Callable(EntryOf(f.name, f.pre).action)

\* C13 as claimed: every dispatch returns, also when its actions invoke
\* transition callables reentrantly over a cycle of states: a dispatch that
\* has entered its action does not end by an exception.
C13_AsClaimed ==
    \A i \in 1..Len(stack) : stack[i].pc = "throw" => InvokedAt(i) = {}

\* C13 as amended: every dispatch terminates, by returning or by an
\* exception that reaches the client; a dispatch that has entered its action
\* ends by an exception only when the reentrant calls have exhausted the
\* call stack (or the action calls what is no function).
C13_DispatchTerminates ==
    /\ [](\A i \in 1..Len(stack) :
              (stack[i].pc = "throw" /\ InvokedAt(i) # {}) =>
                  \/ Len(stack) = MaxDepth
                  \/ /\ Reenters(stack[i].tr.action) # ""
                     /\ stateMachine[stack[i].m][Reenters(stack[i].tr.action)].kind # "fn")
    /\ (~Idle ~> Idle)

\* C13 witness: actions that invoke go over the cycle A -> B -> A have
\* filled the call stack, and the innermost dispatch raises.
C13_Witness ==
    /\ Len(stack) = MaxDepth
    /\ Top.pc = "throw"
    /\ Len(log) = MaxDepth
    /\ \A i \in 1..Len(stack) : stack[i].tr.action = "a2"


\* The invocations made by the dispatches that the action of the frame at
\* depth i entered.
InnerInvoked(i) == {j \in 1..Len(log) : log[j].depth > i}

\* C17 (reentrant dispatch is not undone): when a dispatch whose action
\* reentrantly took a transition returns, currentState is the destination
\* of the last transition taken inside the action, and no step that returns
\* from a dispatch writes currentState.
C17_ReentrantNotUndone ==
    /\ [](\A i \in 1..Len(stack) :
              (stack[i].pc = "ret" /\ InnerInvoked(i) # {}) =>
                  LET last == CHOOSE j \in InnerInvoked(i) : \A k \in InnerInvoked(i) : k <= j
                  IN  currentState(stack[i].m) = log[last].seen)
    /\ [][(~Idle /\ Top.pc = "ret") => stateMachine' = stateMachine]_vars

\* C17 witness: the client's call hit an entry to t, its action took a
\* transition to another state, and the call is about to return there.
C17_Witness ==
    /\ Len(stack) = 1
    /\ Top.pc = "ret"
    /\ Top.tr.found
    /\ InnerInvoked(1) # {}
    /\ currentState(Top.m) # Top.tr.endState
    /\ currentState(Top.m) = log[Len(log)].seen

SearchBuilt == widget.pc \notin {"none", "define"}
\* The widget's constructor has returned and no handler is running.
SearchConstructed == widget.pc = "done" /\ Idle /\ widget.calls = << >>

\* C14 as claimed: the runtime of the Search widget exposes exactly focus,
\* unfocus, search, change and clear, and currentState is always one of
\* empty, preSearchWithoutContent, preSearchWithContent,
\* postSearchWithoutContent, postSearchWithContext.
C14_AsClaimed ==
    SearchBuilt =>
        /\ Callables("r1") = {"focus", "unfocus", "search", "change", "clear"}
        /\ currentState("r1") \in
               {Str("empty"), Str("preSearchWithoutContent"), Str("preSearchWithContent"),
                Str("postSearchWithoutContent"), Str("postSearchWithContext")}

\* C14 as amended: the runtime of the Search widget exposes exactly focus,
\* unfocus, search, change and clear, and currentState is always one of
\* the five states the code names, the fourth being
\* postSearchWithoutContext.
C14_SearchStates ==
    SearchBuilt =>
        /\ Callables("r1") = SearchNames
        /\ currentState("r1") \in {Str(s) : s \in SearchStates}

\* C14 witness: invocations have brought the widget to the state that the
\* code calls postSearchWithoutContext.
C14_Witness ==
    /\ Idle
    /\ widget.calls # << >>
    /\ currentState("r1") = Str("postSearchWithoutContext")
    /\ Callables("r1") = SearchNames

\* C15 (Scenario B on the widget): search(q) entered in 'empty' returns in
\* postSearchWithContext after one invocation of the action registered at
\* line 193, which received q; clear() entered in postSearchWithContext
\* returns in preSearchWithoutContent; search entered in
\* preSearchWithoutContent returns there without any invocation.
C15_ScenarioB ==
    \A i \in 1..Len(stack) :
        LET f == stack[i]
        IN  (SearchBuilt /\ f.pc = "ret") =>
                /\ (f.name = "search" /\ f.pre = Str("empty")) =>
                       /\ currentState(f.m) = Str("postSearchWithContext")
                       /\ Cardinality(InvokedAt(i)) = 1
                       /\ \A j \in InvokedAt(i) :
                              log[j].action = "focusAndShowSearch" /\ log[j].args = f.args
                /\ (f.name = "clear" /\ f.pre = Str("postSearchWithContext")) =>
                       currentState(f.m) = Str("preSearchWithoutContent")
                /\ (f.name = "search" /\ f.pre = Str("preSearchWithoutContent")) =>
                       /\ currentState(f.m) = f.pre
                       /\ log = << >>

\* C15 witness: built in 'empty' and left there by the constructor, the
\* widget took search("foo") and clear(), and a second search("foo") is
\* returning in preSearchWithoutContent.
C15_Witness ==
    /\ widget.query = Str("")
    /\ widget.calls = << <<"search", <<"foo">>>>, <<"clear", << >>>>, <<"search", <<"foo">>>> >>
    /\ Top.pc = "ret"
    /\ Top.name = "search"
    /\ log = << >>
    /\ currentState("r1") = Str("preSearchWithoutContent")

\* C16 (clear in 'empty'): a dispatch of clear entered in 'empty' misses:
\* it returns with currentState still 'empty' and no action invoked.
C16_ClearInEmpty ==
    \A i \in 1..Len(stack) :
        LET f == stack[i]
        IN  (SearchBuilt /\ f.name = "clear" /\ f.pre = Str("empty") /\ f.pc # "lookup") =>
                /\ f.pc = "ret"
                /\ currentState(f.m) = Str("empty")
                /\ log = << >>

\* C16 witness: a handler called clear() while the widget was in 'empty',
\* and the call is returning.
C16_Witness ==
    /\ widget.calls # << >>
    /\ Top.name = "clear"
    /\ Top.pre = Str("empty")
    /\ Top.pc = "ret"
    /\ currentState("r1") = Str("empty")

\* The states that one invocation of a callable of the widget leads to
\* from the state s, by the test and the write of lines 15-17.
SearchStep(s) ==
    {lookup(transitions, n, Str(s)).endState.v :
        n \in {x \in SearchNames : lookup(transitions, x, Str(s)).found}}
\* The states that sequences of invocations lead to from the states of S.
RECURSIVE SearchReach(_)
SearchReach(S) ==
    LET T == S \cup UNION {SearchStep(s) : s \in S}
    IN  IF T = S THEN S ELSE SearchReach(T)

\* C19 (no trap): each of the five states of the widget's machine is
\* reachable from 'empty' by some sequence of invocations, 'empty' is
\* reachable again from each of them, and the runtime is never outside the
\* states reachable from 'empty'.
C19_NoTrap ==
    SearchBuilt =>
        LET fromEmpty == SearchReach({"empty"})
        IN  /\ fromEmpty = SearchStates
            /\ \A s \in fromEmpty : "empty" \in SearchReach({s})
            /\ currentState("r1") \in {Str(s) : s \in fromEmpty}

\* C19 witness: the widget went from 'empty' through postSearchWithContext,
\* postSearchWithoutContext and preSearchWithoutContent back to 'empty'.
C19_Witness ==
    /\ Idle
    /\ widget.calls = << <<"search", <<"foo">>>>, <<"focus", <<"event">>>>,
                         <<"clear", << >>>>, <<"unfocus", << >>>> >>
    /\ currentState("r1") = Str("empty")

\* C20 (construction): when the constructor has returned, the machine is
\* in postSearchWithContext if the initial query is non-empty and in
\* 'empty' if it is empty or undefined; the clear issued for an empty or
\* undefined query and the unfocus issued by the trailing blur miss.
C20_Construction ==
    /\ SearchConstructed =>
           currentState("r1") = IF widget.query \in {Undefined, Str("")}
                                THEN Str("empty")
                                ELSE Str("postSearchWithContext")
    /\ \A i \in 1..Len(stack) :
           LET f == stack[i]
           IN  (widget.pc \in {"blur", "done"} /\ widget.calls = << >>
                   /\ f.name \in {"clear", "unfocus"} /\ f.pc # "lookup") =>
                   /\ f.pc = "ret"
                   /\ currentState(f.m) = f.pre
                   /\ log = << >>

\* C20 witness: the constructor has returned from a non-empty initial
\* query and the machine is in postSearchWithContext.
C20_Witness ==
    /\ SearchConstructed
    /\ widget.query = Str("foo")
    /\ currentState("r1") = Str("postSearchWithContext")

====
